---- MODULE Spec2Model ----
(***************************************************************************)
(* frappe_sync: replication of documents between Frappe sites.             *)
(*                                                                         *)
(* The model follows one site.  Its database holds one document of a       *)
(* synced doctype (DocType "Item", name "D1") with one scalar field, a     *)
(* docstatus, a modified timestamp and one child table.  receive_sync      *)
(* (api.py) applies incoming changes to it, on_document_change             *)
(* (sync_engine.py) dispatches local changes to the job queue,             *)
(* push_to_remote (sync_engine.py) delivers a job to a peer,               *)
(* process_failed_syncs (retry.py) replays failed deliveries,              *)
(* cleanup_old_sync_logs (cleanup.py) deletes old Success logs and         *)
(* test_connection (sync_connection.py) pings a peer.                      *)
(*                                                                         *)
(* Spec      receive_sync over the full payload domain.                    *)
(* SpecLoop  receive_sync calls and local changes in one execution context.*)
(* SpecOrder a peer saves the document and its requests arrive in any      *)
(*           order.                                                        *)
(* SpecSend  the delivery worker, the retry sweep and the log cleanup for   *)
(*           one local save.                                               *)
(* SpecDispatch  on_document_change over policies, connections and hooks.  *)
(* SpecSweeps    SpecSend with a second sweep running at the same time.    *)
(* SpecRecover   SpecSend with a peer that comes back, under fairness.     *)
(* SpecDeps      receive_sync of payloads that carry a _dependencies list. *)
(* SpecConfig    SpecSend while connections are being disabled and tested.  *)
(***************************************************************************)
EXTENDS Integers, Sequences, FiniteSets, TLC

(***************************************************************************)
(* Bounds of the model.                                                    *)
(***************************************************************************)
\* Timestamps are 1..MaxTs: canonical "YYYY-MM-DD HH:MM:SS" strings, whose
\* string order is the order of the numbers.
MaxTs == 2
\* Longest child-row list of an incoming payload.
MaxRows == 2
\* Greatest number of delivery jobs waiting in the queue.
MaxQueue == 4
\* Greatest number of Outgoing Sync Logs inserted.
MaxLogs == 8
\* Number of inserted Outgoing Sync Logs up to which a second sweep is started.
MaxOverlap == 2
\* Number of retention periods the clock is followed through.
MaxPeriods == 1
\* Greatest length of a payload's _dependencies list.
MaxDeps == 3

(***************************************************************************)
(* Values.                                                                 *)
(***************************************************************************)
\* Python None where a timestamp is expected (a NULL modified column, a
\* payload without the "modified" key).
NoneTs == 0
\* The "docstatus" key is missing from a payload.
NoDocstatus == -1

Timestamps == 1..MaxTs
Values == {"a", "b"}
DT == "Item"
DocName == "D1"
\* Child rows of D1 created locally before any sync.
LocalRowNames == {"r1", "r2", "r3"}
\* Row names an incoming payload may carry; "" is a row without a name.
IncomingRowNames == {"r1", "r4", ""}
\* Names the framework may generate for a child row inserted without one.
GenNames == {"g1", "g2"}
Events == {"Insert", "Update", "Submit", "Cancel", "Delete", "Merge"}

\* A comparison that also holds for equal timestamps.
StrLessOrEqual(a, b) ==
    IF a = NoneTs THEN b = NoneTs
    ELSE IF b = NoneTs THEN TRUE
    ELSE a <= b

\* str(a) < str(b) for a, b timestamps or None: "None" sorts after every
\* string that starts with a digit.
StrLess(a, b) ==
    IF a = NoneTs THEN FALSE
    ELSE IF b = NoneTs THEN TRUE
    ELSE a < b

(***************************************************************************)
(* Configuration read by the engine: the Sync Settings single document     *)
(* with its policy row for DT, and the Sync Connection documents.          *)
(***************************************************************************)
SiteId == "A"
LWW == "Last Write Wins"

\* A policy row (Sync DocType) of Sync Settings.synced_doctypes.
PolicyRow(doctype_name, ins, upd, del, strategy) ==
    [doctype_name |-> doctype_name, sync_insert |-> ins, sync_update |-> upd,
     sync_delete |-> del, conflict_strategy |-> strategy]

\* log_retention_days 0 is the field left empty.
SyncSettings(enabled, rows) ==
    [enabled |-> enabled, site_id |-> SiteId, synced_doctypes |-> rows,
     log_retention_days |-> 0]

\* The Sync Settings documents the model starts from: no policy row for DT;
\* Last Write Wins behind another doctype's row; an empty strategy with
\* updates not forwarded; Skip with only updates forwarded; sync switched off.
SettingsNoRow == SyncSettings(TRUE, <<>>)
SettingsLWW ==
    SyncSettings(TRUE, <<PolicyRow("Customer", TRUE, TRUE, TRUE, "Skip"),
                         PolicyRow(DT, TRUE, TRUE, TRUE, LWW)>>)
SettingsDefault == SyncSettings(TRUE, <<PolicyRow(DT, TRUE, FALSE, TRUE, "")>>)
SettingsSkip == SyncSettings(TRUE, <<PolicyRow(DT, FALSE, TRUE, FALSE, "Skip")>>)
SettingsOff == SyncSettings(FALSE, <<PolicyRow(DT, TRUE, TRUE, TRUE, LWW)>>)
\* SettingsLWW with Sync Logs kept for one day.
SettingsOneDay == [SettingsLWW EXCEPT !.log_retention_days = 1]

\* utils.py get_conflict_strategy: the first row of the doctype decides,
\* an empty strategy and a missing row both mean Last Write Wins.
RECURSIVE StrategyFrom(_, _, _)
StrategyFrom(rows, i, doctype_name) ==
    IF i > Len(rows) THEN LWW
    ELSE IF rows[i].doctype_name = doctype_name
         THEN (IF rows[i].conflict_strategy # "" THEN rows[i].conflict_strategy ELSE LWW)
         ELSE StrategyFrom(rows, i + 1, doctype_name)

\* A lookup that ignores the policy rows.
StrategyAlwaysDefault(s, doctype_name) == LWW

get_conflict_strategy(s, doctype_name) == StrategyFrom(s.synced_doctypes, 1, doctype_name)

(***************************************************************************)
(* Documents and payloads.                                                 *)
(***************************************************************************)
\* The document D1 as stored: rows is the set of its child rows.
NoDoc == [exists |-> FALSE, title |-> "", docstatus |-> 0, modified |-> NoneTs, rows |-> {}]

ChildRow(name, val, idx) == [name |-> name, val |-> val, idx |-> idx]

RowNamesOf(rows) == {r.name : r \in rows}

\* The child rows in idx order, as doc.as_dict() lists them.
RECURSIVE RowsSeq(_)
RowsSeq(rows) ==
    IF rows = {} THEN <<>>
    ELSE LET first == CHOOSE r \in rows : \A q \in rows : r.idx <= q.idx
         IN <<[name |-> first.name, val |-> first.val]>> \o RowsSeq(rows \ {first})

\* utils.py prepare_doc_payload: doc.as_dict() without the internal fields
\* (docstatus, modified among them); child tables are always listed.
prepare_doc_payload(doc, event) ==
    [valid |-> TRUE, title |-> doc.title, docstatus |-> NoDocstatus,
     modified |-> NoneTs, has_rows |-> TRUE, rows |-> RowsSeq(doc.rows)]

(***************************************************************************)
(* Apply engine (api.py).  A handler works on the uncommitted document and *)
(* returns [doc, status, raised, hooks]: the document as written so far,   *)
(* the status it gave the Sync Log, whether it raised, and the document    *)
(* hooks the framework fired on the way.                                   *)
(***************************************************************************)
Applied(doc, status) == [doc |-> doc, status |-> status, raised |-> FALSE, hooks |-> <<>>]
Raised(doc) == [doc |-> doc, status |-> "Queued", raised |-> TRUE, hooks |-> <<>>]

\* api.py 209-233: upsert rows[i..] in order; existing is the set of row
\* names read before the deletes; h is the name the framework generates for
\* a row inserted without one.  db_insert of a name already in the child
\* table raises (duplicate primary key).
RECURSIVE UpsertRows(_, _, _, _, _)
UpsertRows(tbl, rows, i, existing, h) ==
    IF tbl.raised \/ i > Len(rows) THEN tbl
    ELSE LET row_name == rows[i].name
             new_name == IF row_name # "" THEN row_name ELSE h
         IN IF row_name # "" /\ row_name \in existing
            THEN UpsertRows(
                   [tbl EXCEPT !.rows = {r \in @ : r.name # row_name}
                                          \cup {ChildRow(row_name, rows[i].val, i)}],
                   rows, i + 1, existing, h)
            ELSE IF new_name \in RowNamesOf(tbl.rows)
                 THEN [tbl EXCEPT !.raised = TRUE]
                 ELSE UpsertRows(
                        [tbl EXCEPT !.rows = @ \cup {ChildRow(new_name, rows[i].val, i)}],
                        rows, i + 1, existing, h)

\* A reconciliation that never deletes the rows removed on the source.
SyncChildTablesKeepingRows(doc_rows, doc_data, h) ==
    IF ~doc_data.has_rows THEN [rows |-> doc_rows, raised |-> FALSE]
    ELSE UpsertRows([rows |-> doc_rows, raised |-> FALSE], doc_data.rows, 1,
                    RowNamesOf(doc_rows), h)

\* api.py _sync_child_tables for the one table field of DT: nothing when
\* the payload lacks the field; else delete existing - incoming, then upsert.
_sync_child_tables(doc_rows, doc_data, h) ==
    IF ~doc_data.has_rows THEN [rows |-> doc_rows, raised |-> FALSE]
    ELSE LET existing == RowNamesOf(doc_rows)
             incoming == {doc_data.rows[i].name : i \in 1..Len(doc_data.rows)} \ {""}
             kept == {r \in doc_rows : r.name \notin (existing \ incoming)}
         IN UpsertRows([rows |-> kept, raised |-> FALSE], doc_data.rows, 1, existing, h)

\* api.py 94-112: the insert proper.  The payload carries "creation", so
\* db_insert stamps nothing: modified is the payload's, None without one.
InsertNew(doc_data, h) ==
    LET new_doc == [exists |-> TRUE, title |-> doc_data.title, docstatus |-> 0,
                    modified |-> doc_data.modified, rows |-> {}]
        c == _sync_child_tables({}, doc_data, h)
    IN IF c.raised THEN Raised([new_doc EXCEPT !.rows = c.rows])
       ELSE Applied([new_doc EXCEPT !.rows = c.rows,
                                    !.docstatus = IF doc_data.docstatus \in {1, 2}
                                                  THEN doc_data.docstatus ELSE 0],
                    "Success")

\* api.py 124-145: conflict resolution, then the direct writes.
UpdateExisting(doc, doc_data, modified_timestamp, conflict_strategy, h) ==
    IF conflict_strategy = LWW /\ StrLess(modified_timestamp, doc.modified)
    THEN Applied(doc, "Skipped")
    ELSE IF conflict_strategy # LWW /\ conflict_strategy = "Skip"
    THEN Applied(doc, "Skipped")
    ELSE LET written == [doc EXCEPT
                           !.title = doc_data.title,
                           !.docstatus = IF doc_data.docstatus # NoDocstatus
                                         THEN doc_data.docstatus ELSE @,
                           !.modified = IF doc_data.modified # NoneTs
                                        THEN doc_data.modified ELSE @]
             c == _sync_child_tables(doc.rows, doc_data, h)
         IN IF c.raised THEN Raised([written EXCEPT !.rows = c.rows])
            ELSE Applied([written EXCEPT !.rows = c.rows], "Success")

\* api.py _handle_insert: an existing record is redirected to the update,
\* with the payload's own "modified" as its timestamp.
_handle_insert(doc, doc_data, conflict_strategy, h) ==
    IF doc.exists
    THEN UpdateExisting(doc, doc_data, doc_data.modified, conflict_strategy, h)
    ELSE InsertNew(doc_data, h)

\* api.py _handle_update: a missing record is redirected to the insert.
_handle_update(doc, doc_data, modified_timestamp, conflict_strategy, h) ==
    IF ~doc.exists
    THEN InsertNew(doc_data, h)
    ELSE UpdateExisting(doc, doc_data, modified_timestamp, conflict_strategy, h)

\* api.py _handle_submit
_handle_submit(doc, doc_data, conflict_strategy, h) ==
    IF ~doc.exists THEN _handle_insert(doc, doc_data, conflict_strategy, h)
    ELSE IF doc.docstatus = 0
    THEN Applied([doc EXCEPT !.title = doc_data.title,
                             !.modified = IF doc_data.modified # NoneTs
                                          THEN doc_data.modified ELSE @,
                             !.docstatus = 1],
                 "Success")
    ELSE Applied(doc, "Success")

\* A cancel that does not look at the record's docstatus.
CancelAnyState(doc) ==
    IF ~doc.exists THEN Applied(doc, "Skipped")
    ELSE Applied([doc EXCEPT !.docstatus = 2], "Success")

\* api.py _handle_cancel
_handle_cancel(doc) ==
    IF ~doc.exists THEN Applied(doc, "Skipped")
    ELSE IF doc.docstatus = 1 THEN Applied([doc EXCEPT !.docstatus = 2], "Success")
    ELSE Applied(doc, "Success")

\* api.py _handle_delete: frappe.delete_doc runs the document's on_trash
\* hooks before it removes the record and its child rows.
_handle_delete(doc) ==
    IF ~doc.exists THEN Applied(doc, "Skipped")
    ELSE [doc |-> NoDoc, status |-> "Success", raised |-> FALSE,
          hooks |-> <<[doctype |-> DT, method |-> "on_trash", doc |-> doc]>>]

(***************************************************************************)
(* Outbound dispatcher (sync_engine.py, utils.py).                         *)
(***************************************************************************)
EXCLUDED_DOCTYPES ==
    {"Sync Settings", "Sync Connection", "Sync DocType", "Sync Log", "Error Log",
     "Scheduled Job Log", "Activity Log", "Access Log", "Route History", "Version",
     "Comment", "Communication"}

\* utils.py is_sync_enabled_for_doctype
is_sync_enabled_for_doctype(s, doctype_name, event) ==
    IF ~s.enabled THEN FALSE
    ELSE IF event \notin {"after_insert", "on_update", "on_trash"} THEN FALSE
    ELSE \E i \in 1..Len(s.synced_doctypes) :
           /\ s.synced_doctypes[i].doctype_name = doctype_name
           /\ CASE event = "after_insert" -> s.synced_doctypes[i].sync_insert
                [] event = "on_update" -> s.synced_doctypes[i].sync_update
                [] event = "on_trash" -> s.synced_doctypes[i].sync_delete

\* utils.py get_enabled_connections
get_enabled_connections(conns) == SelectSeq(conns, LAMBDA c : c.enabled)

\* utils.py get_event_type
get_event_type(method) ==
    CASE method = "after_insert" -> "Insert"
      [] method = "on_trash" -> "Delete"
      [] OTHER -> "Update"

\* A dispatcher that does not look at the in-apply flag.
OnDocumentChangeIgnoringFlag(flag, hook, s, conns) ==
    IF hook.doctype \in EXCLUDED_DOCTYPES THEN <<>>
    ELSE IF ~is_sync_enabled_for_doctype(s, hook.doctype, hook.method) THEN <<>>
    ELSE LET targets == SelectSeq(get_enabled_connections(conns),
                                  LAMBDA c : c.remote_site_id # s.site_id)
         IN [i \in 1..Len(targets) |->
               [doc_data |-> prepare_doc_payload(hook.doc, get_event_type(hook.method)),
                connection_name |-> targets[i].name,
                sync_event |-> get_event_type(hook.method),
                origin_site_id |-> s.site_id,
                modified_timestamp |-> hook.doc.modified]]

\* A dispatcher that sends to every enabled connection, the one back to
\* this site included.
OnDocumentChangeToAll(flag, hook, s, conns) ==
    IF flag THEN <<>>
    ELSE IF hook.doctype \in EXCLUDED_DOCTYPES THEN <<>>
    ELSE IF ~is_sync_enabled_for_doctype(s, hook.doctype, hook.method) THEN <<>>
    ELSE LET targets == get_enabled_connections(conns)
         IN [i \in 1..Len(targets) |->
               [doc_data |-> prepare_doc_payload(hook.doc, get_event_type(hook.method)),
                connection_name |-> targets[i].name,
                sync_event |-> get_event_type(hook.method),
                origin_site_id |-> s.site_id,
                modified_timestamp |-> hook.doc.modified]]

\* sync_engine.py on_document_change: the jobs one hook invocation
\* enqueues, in connection order.  flag is frappe.flags.in_frappe_sync and
\* hook is [doctype, method, doc].
on_document_change(flag, hook, s, conns) ==
    IF flag THEN <<>>
    ELSE IF hook.doctype \in EXCLUDED_DOCTYPES THEN <<>>
    ELSE IF ~is_sync_enabled_for_doctype(s, hook.doctype, hook.method) THEN <<>>
    ELSE LET origin_site_id == s.site_id
             event == get_event_type(hook.method)
             payload == prepare_doc_payload(hook.doc, event)
             targets == SelectSeq(get_enabled_connections(conns),
                                  LAMBDA c : c.remote_site_id # origin_site_id)
         IN [i \in 1..Len(targets) |->
               [doc_data |-> payload, connection_name |-> targets[i].name,
                sync_event |-> event, origin_site_id |-> origin_site_id,
                modified_timestamp |-> hook.doc.modified]]

\* The jobs enqueued by a sequence of hook invocations.
RECURSIVE RunHooks(_, _, _, _)
RunHooks(flag, hooks, s, conns) ==
    IF hooks = <<>> THEN <<>>
    ELSE on_document_change(flag, Head(hooks), s, conns)
           \o RunHooks(flag, Tail(hooks), s, conns)

(***************************************************************************)
(* Delivery and retry (sync_engine.py push_to_remote, retry.py).           *)
(***************************************************************************)
MAX_RETRIES == 5

\* retry.py 28: the sweep's fetch limit.
SweepLimit == 50

\* A Sync Log field that was never set.
NoTime == -1

delays == <<60, 300, 900, 3600, 21600>>

Min(a, b) == IF a < b THEN a ELSE b

\* _calculate_next_retry, called at time t.
_calculate_next_retry(retry_count, t) == t + delays[Min(retry_count, Len(delays) - 1) + 1]

\* db_set of a field of the named Sync Connection.
SetConnection(conns, connection_name, status, last_sync_at) ==
    [i \in 1..Len(conns) |->
       IF conns[i].name = connection_name
       THEN [conns[i] EXCEPT !.status = status, !.last_sync_at = last_sync_at]
       ELSE conns[i]]

\* The enabled field of the named Sync Connection.
IsEnabled(conns, connection_name) ==
    \E k \in 1..Len(conns) : conns[k].name = connection_name /\ conns[k].enabled

\* Whether frappe.get_doc("Sync Connection", connection_name) finds the
\* document.
HasConnection(conns, connection_name) ==
    \E k \in 1..Len(conns) : conns[k].name = connection_name

LastSyncAt(conns, connection_name) ==
    IF ~HasConnection(conns, connection_name) THEN NoTime
    ELSE LET i == CHOOSE k \in 1..Len(conns) : conns[k].name = connection_name
         IN conns[i].last_sync_at

\* A push_to_remote that marks its log and leaves the connection's status
\* as it was when the peer call fails.
PushLeavingPeerStatus(job, conns, found, up, t, insert_ok) ==
    LET log == [sync_connection |-> job.connection_name, event |-> job.sync_event,
                direction |-> "Outgoing", request_payload |-> job.doc_data,
                origin_site_id |-> job.origin_site_id,
                modified_timestamp |-> job.modified_timestamp,
                status |-> "Queued", error |-> FALSE, retry_count |-> 0,
                next_retry_at |-> NoTime]
    IN IF found /\ up
       THEN [log |-> [log EXCEPT !.status = "Success"],
             conns |-> SetConnection(conns, job.connection_name, "Active", t),
             delivered |-> TRUE, raised |-> ~insert_ok]
       ELSE [log |-> [log EXCEPT !.status = "Failed", !.error = TRUE, !.retry_count = 0,
                                 !.next_retry_at = _calculate_next_retry(0, t)],
             conns |-> conns, delivered |-> FALSE, raised |-> ~insert_ok]

\* sync_engine.py push_to_remote at time t: the Sync Log it builds, the
\* Sync Connection documents as written, whether the peer was reached and
\* whether log.insert() raised.  found is whether the get_doc of line 90
\* found the connection (no post is made when it raised), up whether the
\* peer answered the post and insert_ok whether the store accepts the log.
\* conns are the documents at the time of the writes: the db_set of a
\* connection that is gone writes nothing, the get_doc of line 121 raising
\* and its exception being dropped.
push_to_remote(job, conns, found, up, t, insert_ok) ==
    LET log == [sync_connection |-> job.connection_name, event |-> job.sync_event,
                direction |-> "Outgoing", request_payload |-> job.doc_data,
                origin_site_id |-> job.origin_site_id,
                modified_timestamp |-> job.modified_timestamp,
                status |-> "Queued", error |-> FALSE, retry_count |-> 0,
                next_retry_at |-> NoTime]
    IN IF found /\ up
       THEN [log |-> [log EXCEPT !.status = "Success"],
             conns |-> SetConnection(conns, job.connection_name, "Active", t),
             delivered |-> TRUE, raised |-> ~insert_ok]
       ELSE [log |-> [log EXCEPT !.status = "Failed", !.error = TRUE, !.retry_count = 0,
                                 !.next_retry_at = _calculate_next_retry(0, t)],
             conns |-> SetConnection(conns, job.connection_name, "Error",
                                     LastSyncAt(conns, job.connection_name)),
             delivered |-> FALSE, raised |-> ~insert_ok]

\* A fetch that filters on the status Queued.
FetchQueuedLogs(logs, t) ==
    {i \in 1..Len(logs) :
        /\ logs[i].status = "Queued"
        /\ logs[i].direction = "Outgoing"
        /\ logs[i].retry_count < MAX_RETRIES
        /\ logs[i].next_retry_at <= t}

\* retry.py 11-29: the logs a sweep at time t fetches.
FailedLogs(logs, t) ==
    {i \in 1..Len(logs) :
        /\ logs[i].status = "Failed"
        /\ logs[i].direction = "Outgoing"
        /\ logs[i].retry_count < MAX_RETRIES
        /\ logs[i].next_retry_at <= t}

\* retry.py 11-29: the row get_all returns for the log at position i, its
\* name and the fields as persisted at the time of the fetch.
LogData(logs, i) == logs[i]

\* sync_engine.py 125-126: log.insert() at time t gives the row its name
\* and its creation time.
insert(logs, log, name, t) == Append(logs, [name |-> name, creation |-> t] @@ log)

\* Whether the store holds a Sync Log of that name, and the row.
HasLog(logs, name) == \E k \in 1..Len(logs) : logs[k].name = name

LogNamed(logs, name) == logs[CHOOSE k \in 1..Len(logs) : logs[k].name = name]

\* retry.py 41-47: the job _retry_sync hands to push_to_remote.
ReplayJob(log_data) ==
    [doc_data |-> log_data.request_payload, connection_name |-> log_data.sync_connection,
     sync_event |-> log_data.event, origin_site_id |-> log_data.origin_site_id,
     modified_timestamp |-> log_data.modified_timestamp]

\* retry.py _retry_sync after its push_to_remote call, at time t: the Sync
\* Logs it writes and commits (retry.py 49-61).  logs is the store as the
\* call left it and raised whether the call raised.
_retry_sync(logs, log_data, raised, t) ==
    LET name == log_data.name
        retry_count == log_data.retry_count + 1
    IN [k \in 1..Len(logs) |->
          IF logs[k].name # name THEN logs[k]
          ELSE IF ~raised THEN [logs[k] EXCEPT !.status = "Success"]
          ELSE [logs[k] EXCEPT !.retry_count = retry_count,
                               !.next_retry_at = _calculate_next_retry(retry_count, t),
                               !.error = TRUE]]

\* cleanup.py 10: the retention period when the setting is empty, in days.
DefaultRetentionDays == 30

\* The seconds of a day (cleanup.py 12: add_to_date(..., days=...)).
DaySeconds == 86400

\* cleanup.py 21: the most logs one cleanup fetches.
CleanupLimit == 1000

\* cleanup.py 9-10: the retention period of the settings s, in seconds.
Retention(s) ==
    (IF s.log_retention_days # 0 THEN s.log_retention_days ELSE DefaultRetentionDays)
        * DaySeconds

\* cleanup.py 12: the cutoff of a cleanup at time t.
Cutoff(s, t) == t - Retention(s)

\* cleanup.py 14-22: the names of the logs a cleanup at time t can fetch.
OldLogs(logs, s, t) ==
    {logs[k].name : k \in {i \in 1..Len(logs) : /\ logs[i].status = "Success"
                                                /\ logs[i].creation < Cutoff(s, t)}}

\* cleanup.py 24-28: the store after delete_doc of the fetched names.
cleanup_old_sync_logs(logs, names) == SelectSeq(logs, LAMBDA l : l.name \notin names)

(***************************************************************************)
(* Dependency resolution (api.py _resolve_dependencies).                   *)
(***************************************************************************)
\* api.py 273: the key of a dependency.
DepKey(dep) == <<dep.doctype, dep.name>>

\* api.py 282: the doctypes of the policy rows.
SyncedDoctypes(s) == {s.synced_doctypes[i].doctype_name : i \in 1..Len(s.synced_doctypes)}

\* api.py 272-302: one iteration of the loop, on the state st of the call:
\* the in-progress set, frappe.flags._sync_resolving_deps, the
\* frappe.log_error calls made and the iterations run; present are the
\* keys frappe.db.exists finds.
ResolveStep(dep, s, present, st) ==
    LET key == DepKey(dep)
        seen == [st EXCEPT !.iterations = @ + 1]
    IN IF key \in st.resolving \/ key \in present THEN seen
       ELSE IF dep.doctype \notin SyncedDoctypes(s)
       THEN [seen EXCEPT !.errors = Append(@, [key |-> key, retry |-> FALSE])]
       ELSE [seen EXCEPT !.errors = Append(@, [key |-> key, retry |-> TRUE]),
                         !.flag = st.resolving,
                         !.resolving = (st.resolving \cup {key}) \ {key}]

RECURSIVE ResolveLoop(_, _, _, _)
ResolveLoop(deps, s, present, st) ==
    IF deps = <<>> THEN st
    ELSE ResolveLoop(Tail(deps), s, present, ResolveStep(Head(deps), s, present, st))

\* api.py _resolve_dependencies: flag is frappe.flags._sync_resolving_deps
\* as the call finds it, an unset flag being the empty set.
_resolve_dependencies(dependencies, s, present, flag) ==
    LET st == [resolving |-> flag, flag |-> flag, errors |-> <<>>, iterations |-> 0]
    IN IF dependencies = <<>> THEN st
       ELSE ResolveLoop(dependencies, s, present, st)

(***************************************************************************)
(* receive_sync (api.py 15-71).                                            *)
(***************************************************************************)
\* api.py _create_sync_log
_create_sync_log(doctype_name, document_name, event, direction, origin_site_id, modified_timestamp, status, error) ==
    [doctype_name |-> doctype_name, document_name |-> document_name, event |-> event,
     direction |-> direction, status |-> status, origin_site_id |-> origin_site_id,
     modified_timestamp |-> modified_timestamp, error |-> error]

\* log.insert() of a Sync Log runs that document's after_insert and
\* on_update hooks.
LogHooks ==
    <<[doctype |-> "Sync Log", method |-> "after_insert", doc |-> NoDoc],
      [doctype |-> "Sync Log", method |-> "on_update", doc |-> NoDoc]>>

\* api.py 41-50: the handler of the event; no branch for any other event.
HandleEvent(doc, a, conflict_strategy, h) ==
    CASE a.event = "Insert" -> _handle_insert(doc, a.doc_data, conflict_strategy, h)
      [] a.event = "Update" ->
           _handle_update(doc, a.doc_data, a.modified_timestamp, conflict_strategy, h)
      [] a.event = "Submit" -> _handle_submit(doc, a.doc_data, conflict_strategy, h)
      [] a.event = "Cancel" -> _handle_cancel(doc)
      [] a.event = "Delete" -> _handle_delete(doc)
      [] OTHER -> Applied(doc, "Queued")

\* api.py 24-52, the try block on the uncommitted state: [doc, logs,
\* raised, hooks].  parse_json of a malformed string raises before the log
\* is created; log_ok is whether the store accepts the Sync Log insert.
TryBlock(doc, a, s, h, log_ok) ==
    IF ~a.doc_data.valid THEN [doc |-> doc, logs |-> <<>>, raised |-> TRUE, hooks |-> <<>>]
    ELSE IF ~log_ok THEN [doc |-> doc, logs |-> <<>>, raised |-> TRUE, hooks |-> <<>>]
    ELSE LET log == _create_sync_log(DT, DocName, a.event, "Incoming", a.origin_site_id,
                                     a.modified_timestamp, "Queued", FALSE)
             r == HandleEvent(doc, a, get_conflict_strategy(s, DT), h)
         IN [doc |-> r.doc, logs |-> <<[log EXCEPT !.status = r.status]>>,
             raised |-> r.raised, hooks |-> LogHooks \o r.hooks]

\* A rollback that keeps the uncommitted writes.
RollbackKeepingWrites(committed, working) == working

\* frappe.db.rollback(): the uncommitted writes are dropped.
rollback(committed, working) == committed

\* The flag cleared at the end of the try block only.
FlagClearedOnReturnOnly(raised) == raised

\* api.py 70-71: the finally clause, whatever way the call ends.
FlagAfterFinally(raised) == FALSE

\* api.py receive_sync as a whole: the committed document and Sync Logs it
\* leaves, how it ended, the jobs its hooks enqueued and the flag it leaves.
receive_sync(doc, a, s, conns, h, log_ok) ==
    LET in_frappe_sync_now == TRUE
        t == TryBlock(doc, a, s, h, log_ok)
    IN IF ~t.raised
       THEN [doc |-> t.doc, logs |-> t.logs, result |-> "ok",
             jobs |-> RunHooks(in_frappe_sync_now, t.hooks, s, conns),
             flag |-> FlagAfterFinally(FALSE)]
       ELSE LET rolled == rollback([doc |-> doc, logs |-> <<>>], [doc |-> t.doc, logs |-> t.logs])
                failed == _create_sync_log(
                            IF a.doc_data.valid THEN DT ELSE "",
                            IF a.doc_data.valid THEN DocName ELSE "",
                            a.event, "Incoming", a.origin_site_id, a.modified_timestamp,
                            "Failed", TRUE)
            IN IF log_ok
               THEN [doc |-> rolled.doc, logs |-> rolled.logs \o <<failed>>,
                     result |-> "raised",
                     jobs |-> RunHooks(in_frappe_sync_now, t.hooks \o LogHooks, s, conns),
                     flag |-> FlagAfterFinally(TRUE)]
               ELSE [doc |-> rolled.doc, logs |-> rolled.logs, result |-> "raised",
                     jobs |-> RunHooks(in_frappe_sync_now, t.hooks, s, conns),
                     flag |-> FlagAfterFinally(TRUE)]

(***************************************************************************)
(* State of the site.                                                      *)
(***************************************************************************)
VARIABLES
    settings,        \* the Sync Settings document
    connections,     \* the Sync Connection documents, in get_all order
    testing,         \* the connections a test_connection call is waiting on the peer for
    doc,             \* the committed document D1
    in_logs,         \* Incoming Sync Logs committed by the latest receive_sync
    in_frappe_sync,  \* frappe.flags.in_frappe_sync of the execution context
    queue,           \* jobs enqueued for push_to_remote
    pc,              \* "idle", or "done" right after a receive_sync call
    call,            \* arguments of the latest receive_sync call
    pre,             \* the document and queue as that call found them
    result,          \* "ok" or "raised": how that call ended
    log_writable,    \* whether the store accepts Sync Log inserts
    remote_doc,      \* D1 as the peer B holds it
    remote_queue,    \* the jobs B's saves enqueued that B's worker has not run
    wire,            \* receive_sync requests B has posted that have not arrived
    history,         \* the requests of B that arrived, in arrival order, with their outcome
    out_logs,        \* the Outgoing Sync Logs the store holds, in insertion order
    log_serial,      \* the number of Sync Logs inserted so far: the latest name
    now,             \* frappe.utils.now_datetime(), in seconds
    reached,         \* the connections whose peer has answered a post
    batch,           \* per running sweep, the rows it fetched and has not replayed
    attempts,        \* per connection, the post_request calls made so far
    last_retry,      \* what the latest _retry_sync call found and did
    last_push,       \* what the latest push_to_remote call was given and found
    peer_recovered,  \* the peer B has come back and answers every post from now on
    flight,          \* per worker and sweep run, the push_to_remote call it is inside
    replays,         \* per replayed row (log, fetched retry_count), the posts made for it
    dependencies,    \* the _dependencies list of the payload being applied
    resolving_deps,  \* frappe.flags._sync_resolving_deps, unset being the empty set
    resolved         \* what _resolve_dependencies did with the list

applyVars == <<doc, in_logs, in_frappe_sync, pc, call, pre, result>>
orderVars == <<remote_doc, remote_queue, wire, history>>
sendVars == <<out_logs, log_serial, now, reached, batch, attempts, last_retry, last_push,
              peer_recovered, flight, replays>>
depVars == <<dependencies, resolving_deps, resolved>>

vars == <<settings, connections, testing, doc, in_logs, in_frappe_sync, queue, pc, call, pre,
          result, log_writable, remote_doc, remote_queue, wire, history, out_logs,
          log_serial, now, reached,
          batch, attempts, last_retry, last_push, peer_recovered, flight, replays,
          dependencies, resolving_deps, resolved>>

Connection(name, enabled, remote_site_id) ==
    [name |-> name, enabled |-> enabled, remote_site_id |-> remote_site_id,
     status |-> IF enabled THEN "Active" ELSE "Disabled", last_sync_at |-> NoTime]

\* The Sync Connection documents: a peer B, a connection whose remote site
\* id is this site's own, and a peer C.
Peers == <<Connection("c1", TRUE, "B"), Connection("c2", TRUE, SiteId),
           Connection("c3", TRUE, "C")>>

\* D1 as created locally before any sync: three child rows.
LocalDoc ==
    [exists |-> TRUE, title |-> "a", docstatus |-> 0, modified |-> 1,
     rows |-> {ChildRow("r1", "a", 1), ChildRow("r2", "a", 2), ChildRow("r3", "a", 3)}]

NoCall ==
    [doc_data |-> [valid |-> FALSE, title |-> "", docstatus |-> NoDocstatus,
                   modified |-> NoneTs, has_rows |-> FALSE, rows |-> <<>>],
     event |-> "", origin_site_id |-> "", modified_timestamp |-> NoneTs, h |-> "",
     doctype |-> ""]

NoPre == [doc |-> NoDoc, queue |-> <<>>]

\* No _retry_sync call yet.
NoRetry ==
    [log |-> 0, retry_count |-> 0, at |-> 0, delivered |-> FALSE, raised |-> FALSE]

\* No push_to_remote call yet.
NoPush ==
    [connection_name |-> "", doc_data |-> NoDoc, at |-> 0, log |-> 0,
     found |-> FALSE, up |-> FALSE, insert_ok |-> FALSE, raised |-> FALSE,
     enabled |-> FALSE]

\* The runs of process_failed_syncs that can be under way at once.
Sweeps == {"s1", "s2"}

\* The processes that call push_to_remote: the queue's worker and the runs
\* of the sweep.
Workers == {"worker"} \cup Sweeps

\* A process that is not inside push_to_remote.  Inside it, stage is
\* "posted" once post_request has come back (sync_engine.py 102-108) and
\* "pushed" once the call has committed its log (sync_engine.py 127).
NoJob ==
    [doc_data |-> NoCall.doc_data, connection_name |-> "", sync_event |-> "",
     origin_site_id |-> "", modified_timestamp |-> NoneTs]

NoFlight ==
    [stage |-> "idle", job |-> NoJob, found |-> FALSE, up |-> FALSE, enabled |-> FALSE,
     log |-> 0, retry_count |-> 0]

\* The names of the connections to other sites.
TargetNames == {"c1", "c3"}

\* _resolve_dependencies has not run.
NoResolution == [resolving |-> {}, flag |-> {}, errors |-> <<>>, iterations |-> -1]

InitApply ==
    /\ in_logs = <<>>
    /\ in_frappe_sync = FALSE
    /\ pc = "idle"
    /\ call = NoCall
    /\ pre = NoPre
    /\ result = ""

\* A site that is not resolving dependencies.
InitCommon ==
    /\ InitApply
    /\ testing = {}
    /\ dependencies = <<>>
    /\ resolving_deps = {}
    /\ resolved = NoResolution

InitOrder ==
    /\ remote_doc = LocalDoc
    /\ remote_queue = <<>>
    /\ wire = {}
    /\ history = <<>>

InitSend ==
    /\ out_logs = <<>>
    /\ log_serial = 0
    /\ now = 0
    /\ reached = {}
    /\ batch = [s \in Sweeps |-> {}]
    /\ attempts = [c \in TargetNames |-> 0]
    /\ last_retry = NoRetry
    /\ last_push = NoPush
    /\ peer_recovered = FALSE
    /\ flight = [w \in Workers |-> NoFlight]
    /\ replays = {}

Init ==
    /\ InitCommon
    /\ connections = Peers
    /\ InitOrder
    /\ InitSend
    /\ doc = LocalDoc
    /\ queue = <<>>
    /\ settings \in {SettingsNoRow, SettingsLWW, SettingsSkip}
    /\ log_writable = TRUE

(***************************************************************************)
(* Inputs of receive_sync.                                                 *)
(***************************************************************************)
\* Row-name lists of at most MaxRows rows, at most one of them unnamed.
NameLists ==
    { ns \in UNION { [1..n -> IncomingRowNames] : n \in 0..MaxRows } :
        Cardinality({i \in DOMAIN ns : ns[i] = ""}) <= 1 }

\* A parsed payload: every child row carries the payload's value v.
Payload(v, ds, m, has_rows, ns) ==
    [valid |-> TRUE, title |-> v, docstatus |-> ds, modified |-> m, has_rows |-> has_rows,
     rows |-> [i \in 1..Len(ns) |-> [name |-> ns[i], val |-> v]]]

\* A payload string that is not valid JSON.
BadJson ==
    [valid |-> FALSE, title |-> "", docstatus |-> NoDocstatus, modified |-> NoneTs,
     has_rows |-> FALSE, rows |-> <<>>]

\* The handlers of Cancel, Delete and of an unknown event read only the
\* record's identity.
BarePayload == Payload("a", NoDocstatus, NoneTs, FALSE, <<>>)

\* Payloads of a change stamped ts: every combination of the scalar keys
\* (value, docstatus missing or 1, "modified" missing or ts) without the
\* child table and with the rows r1, r4; and a string that is not JSON.
ScalarPayloads(ts) ==
    { Payload(v, ds, m, FALSE, <<>>) : v \in Values, ds \in {NoDocstatus, 1}, m \in {NoneTs, ts} }
    \cup { Payload(v, ds, m, TRUE, <<"r1", "r4">>) :
             v \in Values, ds \in {NoDocstatus, 1}, m \in {NoneTs, ts} }
    \cup { BadJson }

\* Every row list, with the value "b" and the scalar keys a sender's
\* prepare_doc_payload leaves.
ListPayloads == { Payload("b", NoDocstatus, NoneTs, TRUE, ns) : ns \in NameLists }

Args(doc_data, event, ts) ==
    [doc_data |-> doc_data, event |-> event, origin_site_id |-> "B",
     modified_timestamp |-> ts]

\* The receive_sync calls a peer may make: the events that read only the
\* record's identity; Insert, Update and Submit with the scalar payloads of
\* every timestamp; Insert and Update with every row list, stamped MaxTs.
ReceiveArgs ==
    { Args(d, e, ts) : d \in {BarePayload}, e \in {"Cancel", "Delete", "Merge"}, ts \in Timestamps }
    \cup UNION { { Args(d, e, ts) : d \in ScalarPayloads(ts), e \in {"Insert", "Update", "Submit"} } :
                 ts \in Timestamps }
    \cup { Args(d, e, MaxTs) : d \in ListPayloads, e \in {"Insert", "Update"} }

NeedsName(doc_data) == \E i \in 1..Len(doc_data.rows) : doc_data.rows[i].name = ""

(***************************************************************************)
(* Actions.                                                                *)
(***************************************************************************)
\* The keys frappe.db.exists finds at api.py 277, before the handler of the
\* event has run: the Customer E1 and, when it is stored, the record itself.
Present ==
    {<<"Customer", "E1">>} \cup (IF doc.exists THEN {<<DT, DocName>>} ELSE {})

\* A peer calls receive_sync with the arguments a; h is the name the
\* framework would generate for an unnamed child row, different from every
\* row name in the table.  _resolve_dependencies is called once the payload
\* has been parsed and the Queued log created (api.py 27-39), and returns
\* at once on an empty list (api.py 267).
Receive(a, h) ==
    /\ pc = "idle"
    /\ IF NeedsName(a.doc_data) THEN h \notin RowNamesOf(doc.rows) ELSE h = "g1"
    /\ \E r \in {receive_sync(doc, a, settings, connections, h, log_writable)} :
          /\ doc' = r.doc
          /\ in_logs' = r.logs
          /\ result' = r.result
          /\ queue' = queue \o r.jobs
          /\ in_frappe_sync' = r.flag
    /\ call' = [doc_data |-> a.doc_data, event |-> a.event,
                origin_site_id |-> a.origin_site_id,
                modified_timestamp |-> a.modified_timestamp, h |-> h, doctype |-> DT]
    /\ pre' = [doc |-> doc, queue |-> queue]
    /\ pc' = "done"
    /\ IF a.doc_data.valid /\ log_writable /\ dependencies # <<>>
       THEN /\ resolved' = _resolve_dependencies(dependencies, settings, Present,
                                                 resolving_deps)
            /\ resolving_deps' = resolved'.flag
       ELSE UNCHANGED <<resolving_deps, resolved>>
    /\ UNCHANGED <<settings, testing, dependencies, connections, log_writable, sendVars>>

ReceiveSync ==
    /\ \E a \in ReceiveArgs, h \in GenNames : Receive(a, h)
    /\ UNCHANGED orderVars

\* The caller has its answer; the context is free for the next request.
Return ==
    /\ pc # "idle"
    /\ pc' = "idle"
    /\ call' = NoCall
    /\ pre' = NoPre
    /\ result' = ""
    /\ in_logs' = <<>>
    /\ UNCHANGED <<settings, testing, depVars, connections, doc, in_frappe_sync, queue, log_writable,
                   orderVars, sendVars>>

Next == ReceiveSync \/ Return

Spec == Init /\ [][Next]_vars

(***************************************************************************)
(* One execution context that serves receive_sync calls and local changes  *)
(* of D1 in turn.                                                          *)
(***************************************************************************)
\* The receive_sync calls of this specification: each event, a payload that
\* applies, one whose second row repeats a new name (the insert of the
\* repeated row raises) and one that is not JSON.
LoopArgs ==
    { Args(BarePayload, e, 1) : e \in {"Cancel", "Delete", "Merge"} }
    \cup { Args(d, e, ts) :
             d \in {Payload("b", NoDocstatus, NoneTs, TRUE, <<"r1">>),
                    Payload("b", NoDocstatus, NoneTs, TRUE, <<"r4", "r4">>),
                    BadJson},
             e \in {"Insert", "Update"}, ts \in Timestamps }

ReceiveLoop ==
    /\ \E a \in LoopArgs : Receive(a, "g1")
    /\ UNCHANGED orderVars

\* The document hooks a local insert, save or delete of D1 runs: an insert
\* runs after_insert and on_update, a delete runs on_trash on the record
\* as it was.
LocalHooks(method, before, after) ==
    CASE method = "after_insert" ->
           <<[doctype |-> DT, method |-> "after_insert", doc |-> after],
             [doctype |-> DT, method |-> "on_update", doc |-> after]>>
      [] method = "on_trash" -> <<[doctype |-> DT, method |-> "on_trash", doc |-> before]>>
      [] OTHER -> <<[doctype |-> DT, method |-> method, doc |-> after]>>

\* A local user inserts, saves or deletes D1 through the full save path, in
\* the execution context of the latest receive_sync call: the save stamps
\* "modified" with t and each hook calls on_document_change.
LocalChange(method, v, t) ==
    /\ pc \in {"idle", "done"}
    /\ IF method = "after_insert" THEN ~doc.exists ELSE doc.exists
    /\ t >= doc.modified
    /\ LET after == CASE method = "after_insert" ->
                          [exists |-> TRUE, title |-> v, docstatus |-> 0, modified |-> t,
                           rows |-> {}]
                     [] method = "on_trash" -> NoDoc
                     [] OTHER -> [doc EXCEPT !.title = v, !.modified = t]
           jobs == RunHooks(in_frappe_sync, LocalHooks(method, doc, after), settings,
                            connections)
       IN /\ Len(queue) + Len(jobs) <= MaxQueue
          /\ doc' = after
          /\ queue' = queue \o jobs
    /\ pc' = "changed"
    /\ call' = [NoCall EXCEPT !.event = method, !.doctype = DT]
    /\ pre' = [doc |-> doc, queue |-> queue]
    /\ UNCHANGED <<settings, testing, depVars, connections, log_writable, in_logs, result, in_frappe_sync,
                   orderVars, sendVars>>

LocalSave ==
    \E method \in {"after_insert", "on_update", "on_trash"}, v \in Values, t \in Timestamps :
        LocalChange(method, v, t)

InitLoop ==
    /\ InitCommon
    /\ connections = Peers
    /\ InitOrder
    /\ InitSend
    /\ doc = LocalDoc
    /\ queue = <<>>
    /\ settings \in {SettingsNoRow, SettingsLWW, SettingsDefault, SettingsSkip, SettingsOff}
    /\ log_writable \in BOOLEAN

NextLoop == ReceiveLoop \/ LocalSave \/ Return

SpecLoop == InitLoop /\ [][NextLoop]_vars

(***************************************************************************)
(* The dispatcher alone: on_document_change called for documents of        *)
(* several doctypes, under every policy and every set of enabled peers.    *)
(***************************************************************************)
\* The doctypes whose documents change: DT, an excluded system doctype and
\* another doctype with a policy row of its own.
HookDoctypes == {DT, "Sync Log", "Customer"}

\* The methods the framework calls the hook with; on_submit stands for any
\* method outside the event map.
HookMethods == {"after_insert", "on_update", "on_trash", "on_submit"}

\* The Sync Connection documents with each of the three enabled or not.
PeerSets ==
    { <<Connection("c1", e1, "B"), Connection("c2", e2, SiteId), Connection("c3", e3, "C")>> :
        e1 \in BOOLEAN, e2 \in BOOLEAN, e3 \in BOOLEAN }

\* The document handed to the hook.
HookDoc(doctype_name) ==
    IF doctype_name = DT THEN doc
    ELSE [exists |-> TRUE, title |-> "a", docstatus |-> 0, modified |-> 1, rows |-> {}]

\* The framework calls on_document_change(doc, method) outside any apply.
Hook(doctype_name, method) ==
    /\ pc = "idle"
    /\ LET jobs == on_document_change(in_frappe_sync,
                                      [doctype |-> doctype_name, method |-> method,
                                       doc |-> HookDoc(doctype_name)],
                                      settings, connections)
       IN /\ Len(queue) + Len(jobs) <= MaxQueue
          /\ queue' = queue \o jobs
    /\ pc' = "changed"
    /\ call' = [NoCall EXCEPT !.event = method, !.doctype = doctype_name]
    /\ pre' = [doc |-> doc, queue |-> queue]
    /\ UNCHANGED <<settings, testing, depVars, connections, doc, log_writable, in_logs, result,
                   in_frappe_sync, orderVars, sendVars>>

Dispatch == \E doctype_name \in HookDoctypes, method \in HookMethods : Hook(doctype_name, method)

InitDispatch ==
    /\ InitCommon
    /\ InitOrder
    /\ InitSend
    /\ connections \in PeerSets
    /\ doc = LocalDoc
    /\ queue = <<>>
    /\ settings \in {SettingsNoRow, SettingsLWW, SettingsDefault, SettingsSkip, SettingsOff}
    /\ log_writable = TRUE

NextDispatch == Dispatch \/ Return

SpecDispatch == InitDispatch /\ [][NextDispatch]_vars

(***************************************************************************)
(* receive_sync of a payload that carries a _dependencies list: the call   *)
(* runs _resolve_dependencies on the list after creating the log and       *)
(* before it dispatches on the event.                                      *)
(***************************************************************************)
\* The dependencies a payload can name: the record being applied, a
\* Customer this site does not hold and one it holds.
Deps ==
    {[doctype |-> DT, name |-> DocName], [doctype |-> "Customer", name |-> "X1"],
     [doctype |-> "Customer", name |-> "E1"]}

RECURSIVE DepLists(_)
DepLists(n) ==
    IF n = 0 THEN {<<>>}
    ELSE LET shorter == DepLists(n - 1)
         IN shorter \cup {Append(l, d) : l \in {x \in shorter : Len(x) = n - 1}, d \in Deps}

\* The state before one receive_sync call whose payload carries the list
\* dependencies.  Customer has a policy row under SettingsLWW and none under
\* SettingsSkip.
InitDeps ==
    /\ InitApply
    /\ testing = {}
    /\ InitOrder
    /\ InitSend
    /\ connections = Peers
    /\ doc \in {LocalDoc, NoDoc}
    /\ queue = <<>>
    /\ settings \in {SettingsLWW, SettingsSkip}
    /\ log_writable = TRUE
    /\ dependencies \in DepLists(MaxDeps)
    /\ resolving_deps = {}
    /\ resolved = NoResolution

\* The step is the whole request: _resolve_dependencies has no caller but
\* receive_sync (api.py 39).
NextDeps == ReceiveSync

SpecDeps == InitDeps /\ [][NextDeps]_vars

(***************************************************************************)
(* The delivery worker and the retry sweep of this site, for the jobs of   *)
(* one local save of D1.                                                   *)
(***************************************************************************)
\* A worker takes the next job and runs push_to_remote up to the answer
\* of post_request (sync_engine.py 75-108): it has read the connection and
\* it waits for the peer.  up is whether the peer answers.  When the
\* connection is not found the call makes no post and is in its except
\* branch.
RunJob(up) ==
    /\ queue # <<>>
    /\ flight["worker"].stage = "idle"
    /\ LET job == Head(queue)
           found == HasConnection(connections, job.connection_name)
       IN /\ (peer_recovered /\ found) => up
          /\ ~found => ~up
          /\ (log_writable /\ ~up) => log_serial < MaxLogs
          /\ attempts' = IF found THEN [attempts EXCEPT ![job.connection_name] = @ + 1]
                          ELSE attempts
          /\ reached' = IF up THEN reached \cup {job.connection_name} ELSE reached
          /\ flight' = [flight EXCEPT !["worker"] =
                           [stage |-> "posted", job |-> job, found |-> found, up |-> up,
                            enabled |-> IsEnabled(connections, job.connection_name),
                            log |-> 0, retry_count |-> 0]]
    /\ queue' = Tail(queue)
    /\ UNCHANGED <<settings, testing, depVars, connections, log_writable, applyVars, orderVars,
                   out_logs, log_serial, now, batch, last_retry, last_push,
                   peer_recovered, replays>>

Work == \E up \in BOOLEAN : RunJob(up)

\* What a finished push_to_remote call of the process in flight f was
\* given and found; log is the name its log.insert() gives.
PushRecord(f, raised) ==
    [connection_name |-> f.job.connection_name, doc_data |-> f.job.doc_data, at |-> now,
     log |-> log_serial + 1, found |-> f.found, up |-> f.up, insert_ok |-> log_writable,
     raised |-> raised, enabled |-> f.enabled]

\* The job's push_to_remote goes on after the answer (sync_engine.py
\* 110-127): it writes the connection, inserts the log and commits.  When
\* log.insert() raises the job fails and its uncommitted writes are dropped.
FinishJob ==
    /\ flight["worker"].stage = "posted"
    /\ LET f == flight["worker"]
       IN \E r \in {push_to_remote(f.job, connections, f.found, f.up, now, log_writable)} :
          /\ out_logs' = IF r.raised THEN out_logs
                          ELSE insert(out_logs, r.log, log_serial + 1, now)
          /\ log_serial' = IF r.raised THEN log_serial ELSE log_serial + 1
          /\ connections' = IF r.raised THEN connections ELSE r.conns
          /\ last_push' = PushRecord(f, r.raised)
    /\ flight' = [flight EXCEPT !["worker"] = NoFlight]
    /\ UNCHANGED <<settings, testing, depVars, queue, log_writable, applyVars, orderVars, now,
                   reached, batch, attempts, last_retry, peer_recovered, replays>>

\* The scheduler starts process_failed_syncs as run s: the fetch.
SweepStart(s) ==
    /\ batch[s] = {}
    /\ flight[s].stage = "idle"
    /\ LET due == FailedLogs(out_logs, now)
       IN /\ due # {}
          /\ \E b \in SUBSET due :
                /\ Cardinality(b) = Min(SweepLimit, Cardinality(due))
                /\ batch' = [batch EXCEPT ![s] = {LogData(out_logs, i) : i \in b}]
    /\ UNCHANGED <<settings, testing, depVars, connections, queue, log_writable, applyVars, orderVars,
                   out_logs, log_serial, now, reached, attempts, last_retry, last_push,
                   peer_recovered, flight, replays>>

Sweep == SweepStart("s1")

\* The posts made so far for the row (log i as fetched with retry_count n).
Posts(i, n) ==
    LET made == {p \in replays : p.log = i /\ p.retry_count = n}
    IN IF made = {} THEN 0 ELSE (CHOOSE p \in made : TRUE).calls

\* The run s takes one of the rows it fetched and runs _retry_sync up to
\* the answer of push_to_remote's post_request (retry.py 39-47,
\* sync_engine.py 75-108).  It does not read the log again.
RetryOne(s, log_data, up) ==
    /\ flight[s].stage = "idle"
    /\ (log_writable /\ ~up) => log_serial < MaxLogs
    /\ LET i == log_data.name
           n == log_data.retry_count
           found == HasConnection(connections, log_data.sync_connection)
       IN /\ (peer_recovered /\ found) => up
          /\ ~found => ~up
          /\ flight' = [flight EXCEPT ![s] =
                           [stage |-> "posted", job |-> ReplayJob(log_data),
                            found |-> found, up |-> up,
                            enabled |-> IsEnabled(connections, log_data.sync_connection),
                            log |-> i, retry_count |-> n]]
          /\ replays' = {p \in replays : ~(p.log = i /\ p.retry_count = n)}
                           \cup {[log |-> i, retry_count |-> n,
                                  calls |-> Posts(i, n) + (IF found THEN 1 ELSE 0)]}
          /\ reached' = IF up THEN reached \cup {log_data.sync_connection} ELSE reached
          /\ attempts' = IF found
                          THEN [attempts EXCEPT ![log_data.sync_connection] = @ + 1]
                          ELSE attempts
    /\ batch' = [batch EXCEPT ![s] = @ \ {log_data}]
    /\ UNCHANGED <<settings, testing, depVars, connections, queue, log_writable, applyVars,
                   orderVars, out_logs, log_serial, now, last_retry, last_push,
                   peer_recovered>>

Retry == \E log_data \in batch["s1"], up \in BOOLEAN : RetryOne("s1", log_data, up)

\* The replay's push_to_remote goes on after the answer (sync_engine.py
\* 110-127).  When log.insert() succeeds it commits the new log and the
\* connection, and _retry_sync has yet to write the replayed log.  When it
\* raises, _retry_sync's except branch writes the replayed log and its
\* commit (retry.py 51-61) also commits the connection.
RetryPush(s) ==
    /\ flight[s].stage = "posted"
    /\ LET f == flight[s]
       IN \E r \in {push_to_remote(f.job, connections, f.found, f.up, now, log_writable)} :
          /\ connections' = r.conns
          /\ last_push' = PushRecord(f, r.raised)
          /\ IF ~r.raised
             THEN /\ out_logs' = insert(out_logs, r.log, log_serial + 1, now)
                  /\ log_serial' = log_serial + 1
                  /\ flight' = [flight EXCEPT ![s].stage = "pushed"]
                  /\ UNCHANGED last_retry
             ELSE /\ out_logs' = _retry_sync(out_logs, [name |-> f.log,
                                                        retry_count |-> f.retry_count],
                                             TRUE, now)
                  /\ UNCHANGED log_serial
                  /\ flight' = [flight EXCEPT ![s] = NoFlight]
                  /\ last_retry' = [log |-> f.log, retry_count |-> f.retry_count,
                                    at |-> now, delivered |-> f.up, raised |-> TRUE]
    /\ UNCHANGED <<settings, testing, depVars, queue, log_writable, applyVars, orderVars, now,
                   reached, batch, attempts, peer_recovered, replays>>

RetryLogged == RetryPush("s1")

\* push_to_remote has returned: _retry_sync marks the replayed log and
\* commits (retry.py 49-50, 61).
RetryMark(s) ==
    /\ flight[s].stage = "pushed"
    /\ LET f == flight[s]
       IN /\ out_logs' = _retry_sync(out_logs, [name |-> f.log,
                                                retry_count |-> f.retry_count],
                                     FALSE, now)
          /\ last_retry' = [log |-> f.log, retry_count |-> f.retry_count, at |-> now,
                            delivered |-> f.up, raised |-> FALSE]
    /\ flight' = [flight EXCEPT ![s] = NoFlight]
    /\ UNCHANGED <<settings, testing, depVars, connections, queue, log_writable, applyVars,
                   orderVars, log_serial, now, reached, batch, attempts, last_push,
                   peer_recovered, replays>>

RetryMarked == RetryMark("s1")

\* The Failed logs that a later sweep can fetch.
Pending ==
    {i \in 1..Len(out_logs) :
        /\ out_logs[i].status = "Failed"
        /\ out_logs[i].retry_count < MAX_RETRIES
        /\ out_logs[i].next_retry_at > now}

\* Time passes until the next Failed log falls due.
Tick ==
    /\ \E i \in Pending :
          /\ \A k \in Pending : out_logs[i].next_retry_at <= out_logs[k].next_retry_at
          /\ now' = out_logs[i].next_retry_at
    /\ UNCHANGED <<settings, testing, depVars, connections, queue, log_writable, applyVars, orderVars,
                   out_logs, log_serial, reached, batch, attempts, last_retry, last_push,
                   peer_recovered, flight, replays>>

\* The Success logs a cleanup does not fetch yet.
Kept ==
    {i \in 1..Len(out_logs) :
        /\ out_logs[i].status = "Success"
        /\ out_logs[i].creation >= Cutoff(settings, now)}

\* Time passes to the start of the day by which every log inserted up to
\* the end of this day is older than the retention period.
Days ==
    /\ now < MaxPeriods * Retention(settings)
    /\ Kept # {}
    /\ now' = ((now \div DaySeconds) + 1) * DaySeconds + Retention(settings)
    /\ UNCHANGED <<settings, testing, depVars, connections, queue, log_writable, applyVars, orderVars,
                   out_logs, log_serial, reached, batch, attempts, last_retry, last_push,
                   peer_recovered, flight, replays>>

\* The daily scheduler runs cleanup_old_sync_logs (cleanup.py 4-28): the
\* fetch, the deletes and the commit.
Cleanup ==
    /\ LET old == OldLogs(out_logs, settings, now)
       IN /\ old # {}
          /\ \E names \in SUBSET old :
                /\ Cardinality(names) = Min(CleanupLimit, Cardinality(old))
                /\ out_logs' = cleanup_old_sync_logs(out_logs, names)
    /\ UNCHANGED <<settings, testing, depVars, connections, queue, log_writable, applyVars, orderVars,
                   log_serial, now, reached, batch, attempts, last_retry, last_push,
                   peer_recovered, flight, replays>>

\* An administrator deletes the Sync Connection document at position k.
\* The jobs and Sync Logs that name it stay.
Delete(k) ==
    /\ connections' = SubSeq(connections, 1, k - 1)
                          \o SubSeq(connections, k + 1, Len(connections))
    /\ UNCHANGED <<settings, testing, depVars, queue, log_writable, applyVars, orderVars, sendVars>>

DeleteConnection == \E k \in 1..Len(connections) : Delete(k)

\* The Sync Connection documents of a site with the one peer B.
OnePeer == <<Connection("c1", TRUE, "B"), Connection("c2", TRUE, SiteId)>>

\* D1 was saved locally under the settings s and on_document_change
\* enqueued its job.
InitSendingUnder(s) ==
    /\ InitCommon
    /\ InitOrder
    /\ InitSend
    /\ connections = OnePeer
    /\ doc = LocalDoc
    /\ settings = s
    /\ queue = on_document_change(FALSE, [doctype |-> DT, method |-> "on_update",
                                          doc |-> LocalDoc],
                                  s, OnePeer)
    /\ log_writable = TRUE

\* The site keeps its Sync Logs for the default period or for one day.
InitSending == \E s \in {SettingsLWW, SettingsOneDay} : InitSendingUnder(s)

NextSend ==
    \/ Work \/ FinishJob \/ Sweep \/ Retry \/ RetryLogged \/ RetryMarked \/ Tick
    \/ Days \/ Cleanup \/ DeleteConnection

SpecSend == InitSending /\ [][NextSend]_vars

(***************************************************************************)
(* The same site with a peer that comes back for good, under a scheduler   *)
(* that keeps running the worker and the sweep (retry.py 9: "Called by     *)
(* scheduler every 5 minutes") while time passes.                          *)
(***************************************************************************)
PeerRecovers ==
    /\ ~peer_recovered
    /\ peer_recovered' = TRUE
    /\ UNCHANGED <<settings, testing, depVars, connections, queue, log_writable, applyVars,
                   orderVars, out_logs, log_serial, now, reached, batch, attempts,
                   last_retry, last_push, flight, replays>>

\* The connections stay as configured.
NextRecover ==
    \/ Work \/ FinishJob \/ Sweep \/ Retry \/ RetryLogged \/ RetryMarked \/ Tick
    \/ Days \/ Cleanup \/ PeerRecovers

Fairness ==
    /\ WF_vars(Work)
    /\ WF_vars(FinishJob)
    /\ WF_vars(Sweep)
    /\ WF_vars(Retry)
    /\ WF_vars(RetryLogged)
    /\ WF_vars(RetryMarked)
    /\ WF_vars(Tick)

SpecRecover == InitSending /\ [][NextRecover]_vars /\ Fairness

(***************************************************************************)
(* The same site while an administrator disables and tests connections:    *)
(* the save of a Sync Connection runs SyncConnection.validate, the Test     *)
(* Connection button runs test_connection.                                 *)
(***************************************************************************)
\* sync_connection.py validate, on a document saved with the given enabled.
validate(c, enabled) ==
    IF ~enabled THEN [c EXCEPT !.enabled = FALSE, !.status = "Disabled"]
    ELSE IF c.status = "Disabled"
    THEN [c EXCEPT !.enabled = TRUE,
                   !.status = IF c.remote_site_id # "" THEN "Active" ELSE "Disabled"]
    ELSE [c EXCEPT !.enabled = TRUE]

\* The connection k is saved with enabled unchecked.
Disable(k) ==
    /\ connections[k].enabled
    /\ connections' = [connections EXCEPT ![k] = validate(@, FALSE)]
    /\ UNCHANGED <<settings, testing, depVars, queue, log_writable, applyVars, orderVars, sendVars>>

DisableConnection == \E k \in 1..Len(connections) : Disable(k)

\* What the post to the peer's ping comes back with: no answer, an answer
\* of another status than 200, or an answer of status 200 whose message
\* carries a site_id ("" for none).
NoAnswer == [answered |-> FALSE, status_code |-> 0, site_id |-> ""]

Pings ==
    {NoAnswer, [answered |-> TRUE, status_code |-> 500, site_id |-> ""]}
        \cup [answered : {TRUE}, status_code : {200}, site_id : {"", "B", "Z"}]

\* sync_connection.py _do_test_connection on the document c: the document
\* as written by db_set and whether the call raised.  enabled is not read.
_do_test_connection(c, ping) ==
    IF ~ping.answered
    THEN [doc |-> [c EXCEPT !.status = "Error"], raised |-> TRUE]
    ELSE IF ping.status_code # 200 THEN [doc |-> c, raised |-> TRUE]
    ELSE IF ping.site_id # ""
    THEN [doc |-> [c EXCEPT !.remote_site_id = ping.site_id, !.status = "Active"],
          raised |-> FALSE]
    ELSE [doc |-> c, raised |-> TRUE]

\* test_connection of a connection up to the wait for the peer's answer
\* (sync_connection.py 15-49): get_doc has found the document, the post is
\* on its way and nothing has been written.
TestConnection ==
    /\ \E k \in 1..Len(connections) :
          /\ connections[k].name \notin testing
          /\ testing' = testing \cup {connections[k].name}
    /\ UNCHANGED <<settings, depVars, connections, queue, log_writable, applyVars,
                   orderVars, sendVars>>

\* The rest of the call (sync_connection.py 51-78), once the post has come
\* back or timed out: db_set writes on the row of that name as it then is,
\* and on no row when it is gone.  A call that raises leaves its db_set
\* uncommitted: the caller commits it (committed) or rolls it back.
Answer(connection_name, ping, committed) ==
    /\ connection_name \in testing
    /\ testing' = testing \ {connection_name}
    /\ connections' =
          [i \in 1..Len(connections) |->
              IF connections[i].name # connection_name THEN connections[i]
              ELSE LET r == _do_test_connection(connections[i], ping)
                   IN IF r.raised /\ ~committed THEN rollback(connections[i], r.doc)
                      ELSE r.doc]
    /\ UNCHANGED <<settings, depVars, queue, log_writable, applyVars, orderVars, sendVars>>

TestAnswered ==
    \E connection_name \in testing, ping \in Pings, committed \in BOOLEAN :
        Answer(connection_name, ping, committed)

\* The clock is followed into the later days while the site has inserted
\* no more than MaxOverlap logs.
LaterDays ==
    /\ log_serial <= MaxOverlap
    /\ Days

InitDefault == InitSendingUnder(SettingsLWW)

NextConfig ==
    \/ Work \/ FinishJob \/ Sweep \/ Retry \/ RetryLogged \/ RetryMarked \/ Tick
    \/ LaterDays \/ Cleanup \/ DisableConnection \/ TestConnection \/ TestAnswered

SpecConfig == InitDefault /\ [][NextConfig]_vars

(***************************************************************************)
(* Two runs of process_failed_syncs under way at once: the scheduler       *)
(* starts a second run while the first has fetched and not finished.  The  *)
(* second run is started while the site has inserted fewer than MaxOverlap *)
(* logs, on a store that accepts every Sync Log insert.                    *)
(***************************************************************************)
SecondSweep ==
    /\ log_serial < MaxOverlap
    /\ SweepStart("s2")

SecondRetry == \E log_data \in batch["s2"], up \in BOOLEAN : RetryOne("s2", log_data, up)

SecondLogged == RetryPush("s2")

SecondMarked == RetryMark("s2")

NextSweeps ==
    \/ Work \/ FinishJob \/ Sweep \/ Retry \/ RetryLogged \/ RetryMarked \/ Tick
    \/ SecondSweep \/ SecondRetry \/ SecondLogged \/ SecondMarked
    \/ LaterDays \/ Cleanup

SpecSweeps == InitDefault /\ [][NextSweeps]_vars

(***************************************************************************)
(* Two sites: the peer B changes its copy of D1 and posts each change to   *)
(* this site; the requests arrive in any order.                            *)
(***************************************************************************)
\* The Sync Settings and Sync Connection documents of the peer B.
RemoteSettings == [SettingsLWW EXCEPT !.site_id = "B"]

RemotePeers == <<Connection("a", TRUE, SiteId)>>

\* sync_engine.py 102-108: the request push_to_remote posts for a job.
PostRequest(job) ==
    [doc_data |-> job.doc_data, event |-> job.sync_event,
     origin_site_id |-> job.origin_site_id,
     modified_timestamp |-> job.modified_timestamp]

\* A user of B saves D1 with the value v: the save stamps "modified",
\* on_document_change enqueues a job per connection of B (sync_engine.py
\* 62-70) and the save commits.  The jobs wait in B's queue.
RemoteChange(v) ==
    /\ remote_doc.modified < MaxTs + 1
    /\ LET saved == [remote_doc EXCEPT !.title = v, !.modified = @ + 1]
           jobs == on_document_change(FALSE, [doctype |-> DT, method |-> "on_update",
                                              doc |-> saved],
                                      RemoteSettings, RemotePeers)
       IN /\ remote_doc' = saved
          /\ remote_queue' = remote_queue \o jobs
    /\ UNCHANGED <<settings, testing, depVars, connections, queue, log_writable, applyVars, wire,
                   history, sendVars>>

RemoteSave == \E v \in Values : RemoteChange(v)

\* A worker of B takes the next job and push_to_remote posts its request
\* (sync_engine.py 73-108): the request carries the document and the
\* timestamp the job was enqueued with, whatever B holds by now.
RemotePost ==
    /\ remote_queue # <<>>
    /\ remote_queue' = Tail(remote_queue)
    /\ wire' = wire \cup {PostRequest(Head(remote_queue))}
    /\ UNCHANGED <<settings, testing, depVars, connections, queue, log_writable, applyVars,
                   remote_doc, history, sendVars>>

\* One of the posted requests arrives and receive_sync handles it.
Deliver(m) ==
    /\ Receive(m, "g1")
    /\ wire' = wire \ {m}
    /\ history' = Append(history,
                         [modified_timestamp |-> m.modified_timestamp,
                          title |-> m.doc_data.title,
                          status |-> IF in_logs' = <<>> THEN "" ELSE in_logs'[1].status])
    /\ UNCHANGED <<remote_doc, remote_queue>>

Arrive == \E m \in wire : Deliver(m)

\* The receiver holds D1 as created locally, or does not hold it.
InitTwoSites ==
    /\ InitCommon
    /\ connections = Peers
    /\ InitOrder
    /\ InitSend
    /\ doc \in {LocalDoc, NoDoc}
    /\ queue = <<>>
    /\ settings \in {SettingsNoRow, SettingsLWW, SettingsDefault, SettingsSkip}
    /\ log_writable = TRUE

NextOrder == RemoteSave \/ RemotePost \/ Arrive \/ Return

SpecOrder == InitTwoSites /\ [][NextOrder]_vars

(***************************************************************************)
(* Properties of receive_sync, read in the state right after a call.       *)
(***************************************************************************)
Done == pc = "done"
LogIs(status) == Len(in_logs) = 1 /\ in_logs[1].status = status

\* DT resolves to Last Write Wins: its first policy row says so or names
\* no strategy, or it has no policy row.
UsesLastWriteWins ==
    LET rows == settings.synced_doctypes
        mine == {i \in 1..Len(rows) : rows[i].doctype_name = DT}
    IN \/ mine = {}
       \/ \E i \in mine : /\ \A j \in mine : i <= j
                          /\ rows[i].conflict_strategy \in {"", "Last Write Wins"}

\* The call's modified_timestamp is strictly smaller, as a string, than the
\* record's modified: a stored None reads "None", after every timestamp.
IncomingOlder ==
    \/ pre.doc.modified = NoneTs
    \/ call.modified_timestamp < pre.doc.modified

\* The payload's scalar keys are in the record.
ScalarsWritten ==
    /\ doc.title = call.doc_data.title
    /\ call.doc_data.docstatus # NoDocstatus => doc.docstatus = call.doc_data.docstatus
    /\ call.doc_data.modified # NoneTs => doc.modified = call.doc_data.modified

\* The identity of the i-th incoming row: its name, or the generated one.
IncomingIdentity(i) ==
    IF call.doc_data.rows[i].name = "" THEN call.h ELSE call.doc_data.rows[i].name

\* The child rows are one row per incoming identity, each with the value
\* and the position of the last incoming row of that identity.
RowsReconciled ==
    LET rows == call.doc_data.rows
        n == Len(rows)
    IN /\ RowNamesOf(doc.rows) = {IncomingIdentity(i) : i \in 1..n}
       /\ Cardinality(doc.rows) = Cardinality(RowNamesOf(doc.rows))
       /\ \A r \in doc.rows :
            \E i \in 1..n : /\ IncomingIdentity(i) = r.name
                            /\ \A j \in (i + 1)..n : IncomingIdentity(j) # r.name
                            /\ r.idx = i
                            /\ r.val = rows[i].val

UpdateOfExisting ==
    /\ Done
    /\ call.event = "Update"
    /\ call.doc_data.valid
    /\ pre.doc.exists

\* C1: an Update of an existing record under Last Write Wins is Skipped
\* and leaves the record as it was when the incoming timestamp is strictly
\* smaller than the local one; otherwise it is never Skipped, and the call
\* that returns ok has written the payload's scalar fields and child rows
\* and logged Success.
C1_LastWriteWins ==
    (UpdateOfExisting /\ UsesLastWriteWins) =>
        IF IncomingOlder
        THEN result = "ok" /\ LogIs("Skipped") /\ doc = pre.doc
        ELSE /\ ~LogIs("Skipped")
             /\ result = "ok" =>
                  /\ LogIs("Success")
                  /\ ScalarsWritten
                  /\ call.doc_data.has_rows => RowsReconciled

\* Both branches happen: an older Update skipped, an equal one applied.
C1_Witness_Skipped ==
    /\ UpdateOfExisting /\ UsesLastWriteWins
    /\ settings = SettingsNoRow
    /\ pre.doc.modified = 2 /\ call.modified_timestamp = 1
    /\ LogIs("Skipped")

C1_Witness ==
    /\ UpdateOfExisting /\ UsesLastWriteWins
    /\ pre.doc.modified = call.modified_timestamp
    /\ pre.doc.title # call.doc_data.title
    /\ call.doc_data.has_rows
    /\ LogIs("Success") /\ ScalarsWritten

\* The arrived request of B with the greatest modified timestamp.
NewestArrived ==
    CHOOSE j \in DOMAIN history :
      \A k \in DOMAIN history : history[k].modified_timestamp <= history[j].modified_timestamp

\* C2: on a Last-Write-Wins receiver, once two Updates of B with modified
\* timestamps t1 < t2 have arrived, in either order, D1 carries the value of
\* the one stamped t2, and the one stamped t1, if it arrived after it, was
\* Skipped.
C2_OutOfOrder ==
    (UsesLastWriteWins /\ Len(history) >= 2) =>
        /\ doc.title = history[NewestArrived].title
        /\ \A i \in DOMAIN history : i > NewestArrived => history[i].status = "Skipped"

\* C3: when a sweep replays a due Failed Outgoing log with retry_count n
\* and the delivery fails again, that log stays Failed, its retry_count is
\* n + 1 and its next_retry_at is the replay time plus
\* delays[min(n + 1, 4)].
C3_RetryOnFailure ==
    (last_retry.log # 0 /\ ~last_retry.delivered) =>
        LET l == LogNamed(out_logs, last_retry.log)
            n == last_retry.retry_count
        IN /\ HasLog(out_logs, last_retry.log)
           /\ l.status = "Failed"
           /\ l.retry_count = n + 1
           /\ l.next_retry_at = last_retry.at + delays[Min(n + 1, 4) + 1]

\* C4: a peer that has failed on every attempt is called at most
\* 1 + MAX_RETRIES times for one local change.
C4_RetryCeiling ==
    \A c \in TargetNames : c \notin reached => attempts[c] <= 1 + MAX_RETRIES

\* C5: no hook invoked while receive_sync applies a change enqueues a
\* delivery job: the queue after the call is the queue before it.
C5_LoopSuppression == Done => queue = pre.queue

\* A Delete applied on a site that forwards deletes to enabled peers.
C5_Witness ==
    /\ Done /\ call.event = "Delete" /\ pre.doc.exists /\ ~doc.exists
    /\ settings = SettingsLWW
    /\ LogIs("Success") /\ queue = pre.queue

\* The connections of the jobs the latest local change enqueued.
Dispatched == {queue[i].connection_name : i \in (Len(pre.queue) + 1)..Len(queue)}

\* C6: whatever way a receive_sync call ends (ok, or raising on a parse
\* error, on an apply exception or on the failure-log write), the in-apply
\* flag is false afterwards, and a local change of a sync-enabled type made
\* next in the same context is dispatched to every other site.
C6_FlagCleared ==
    /\ Done => ~in_frappe_sync
    /\ (pc = "changed" /\ is_sync_enabled_for_doctype(settings, DT, call.event))
          => Dispatched = TargetNames

\* A local save dispatched right after a call that raised while the store
\* refused the failure log.
C6_Witness ==
    /\ pc = "changed" /\ call.event = "on_update"
    /\ result = "raised" /\ ~log_writable /\ in_logs = <<>>
    /\ is_sync_enabled_for_doctype(settings, DT, call.event)
    /\ Dispatched = TargetNames

\* C7: a receive_sync call that raises leaves the record exactly as it
\* found it and logs Failed; a call that returns ok never logs Failed.
C7_ReceiveAtomic ==
    Done => /\ result = "raised" => (doc = pre.doc /\ LogIs("Failed"))
            /\ result = "ok" => ~LogIs("Failed")

\* An Update that wrote the scalar fields and a child row, then raised on
\* the second insert of the same row name.
C7_Witness ==
    /\ UpdateOfExisting /\ ~IncomingOlder /\ UsesLastWriteWins
    /\ call.doc_data.rows = <<[name |-> "r4", val |-> "b"], [name |-> "r4", val |-> "b"]>>
    /\ pre.doc.title = "a"
    /\ result = "raised" /\ doc = pre.doc

\* C8: every finished receive_sync call leaves exactly one committed
\* Incoming Sync Log, Success, Skipped or Failed and never Queued, Failed
\* with the error captured exactly when the call raised, whatever the event.
C8_AuditOutcome ==
    Done => /\ Len(in_logs) = 1
            /\ in_logs[1].direction = "Incoming"
            /\ in_logs[1].status \in {"Success", "Skipped", "Failed"}
            /\ (in_logs[1].status = "Failed") <=> (result = "raised")
            /\ in_logs[1].error <=> (result = "raised")

\* The record a first delivery of the call's Insert payload leaves when the
\* record does not exist.
FirstDelivery(h) == InsertNew(call.doc_data, h)

\* C9: a second delivery of an Insert payload, to the record its first
\* delivery created, leaves scalar fields, docstatus and child rows
\* (identities and order) as they were.
C9_DuplicateInsert ==
    (/\ Done /\ call.event = "Insert" /\ call.doc_data.valid
     /\ \E h \in GenNames : ~FirstDelivery(h).raised /\ pre.doc = FirstDelivery(h).doc)
    => (result = "ok" /\ doc = pre.doc)

\* The calls whose handler reconciles the child table: Insert and Update,
\* and the Submit of a record that does not exist.
ReconcilingCall ==
    /\ Done /\ result = "ok" /\ LogIs("Success")
    /\ call.doc_data.has_rows
    /\ \/ call.event \in {"Insert", "Update"}
       \/ call.event = "Submit" /\ ~pre.doc.exists

\* C10 as amended: after Insert, Update or the Submit of a missing record
\* applied a payload with the table field, the child rows are exactly one
\* row per incoming identity, a row without a name counting under a newly
\* generated one; rows absent from the payload are gone, and each row has
\* the value and the 1-based position of its last incoming occurrence.
C10_ChildRows == ReconcilingCall => RowsReconciled

\* Existing r1, r2, r3 with incoming r1, r4: exactly r1 (idx 1), r4 (idx 2).
C10_Witness ==
    /\ ReconcilingCall
    /\ RowNamesOf(pre.doc.rows) = {"r1", "r2", "r3"}
    /\ call.doc_data.rows = <<[name |-> "r1", val |-> "b"], [name |-> "r4", val |-> "b"]>>
    /\ doc.rows = {ChildRow("r1", "b", 1), ChildRow("r4", "b", 2)}

\* C10 as stated: for every applied payload with the table field, the row
\* names under the parent are exactly the incoming row names and each row's
\* idx is its position in the incoming sequence.
C10_AsStated ==
    (/\ Done /\ result = "ok" /\ LogIs("Success")
     /\ call.event \in {"Insert", "Update", "Submit"}
     /\ call.doc_data.has_rows)
    => LET rows == call.doc_data.rows
       IN /\ RowNamesOf(doc.rows) = {rows[i].name : i \in 1..Len(rows)} \ {""}
          /\ \A r \in doc.rows : \E i \in 1..Len(rows) : rows[i].name = r.name /\ r.idx = i

\* DT's first policy row names the Skip strategy.
UsesSkip ==
    LET rows == settings.synced_doctypes
        mine == {i \in 1..Len(rows) : rows[i].doctype_name = DT}
    IN \E i \in mine : /\ \A j \in mine : i <= j
                       /\ rows[i].conflict_strategy = "Skip"

\* C11: under the Skip strategy an Update of an existing record is logged
\* Skipped and leaves the record's scalar fields, docstatus and child rows
\* as they were, whatever the incoming and the local timestamps are.
C11_SkipStrategy ==
    (UpdateOfExisting /\ UsesSkip) =>
        /\ result = "ok"
        /\ LogIs("Skipped")
        /\ doc = pre.doc

\* A newer Update with other scalars and rows, skipped.
C11_Witness ==
    /\ UpdateOfExisting /\ UsesSkip
    /\ call.modified_timestamp > pre.doc.modified /\ pre.doc.modified # NoneTs
    /\ call.doc_data.title # pre.doc.title
    /\ call.doc_data.has_rows
    /\ LogIs("Skipped") /\ doc = pre.doc

\* The jobs the latest hook call enqueued.
NewJobs == SubSeq(queue, Len(pre.queue) + 1, Len(queue))

\* The policy enables the hook's doctype and method: sync is switched on
\* and some row of the doctype has the flag of the method's event set.
PolicyEnables ==
    /\ settings.enabled
    /\ \E i \in 1..Len(settings.synced_doctypes) :
         LET row == settings.synced_doctypes[i]
         IN /\ row.doctype_name = call.doctype
            /\ \/ call.event = "after_insert" /\ row.sync_insert
               \/ call.event = "on_update" /\ row.sync_update
               \/ call.event = "on_trash" /\ row.sync_delete

\* The enabled connections to another site.
OtherSites ==
    {i \in 1..Len(connections) :
        connections[i].enabled /\ connections[i].remote_site_id # settings.site_id}

\* C12: a hook call outside an apply, for a type that is not excluded and
\* whose type and event the policy enables, enqueues exactly one job for
\* each enabled connection whose remote_site_id is not this site's id, none
\* for any other connection, each carrying the event type, this site's id
\* and the record's modified timestamp; in every other case it enqueues no
\* job.
C12_FanOut ==
    pc = "changed" =>
        IF call.doctype \notin EXCLUDED_DOCTYPES /\ PolicyEnables
        THEN /\ Len(NewJobs) = Cardinality(OtherSites)
             /\ \A i \in OtherSites :
                  \E k \in 1..Len(NewJobs) : NewJobs[k].connection_name = connections[i].name
             /\ \A k \in 1..Len(NewJobs) :
                  /\ NewJobs[k].origin_site_id = settings.site_id
                  /\ NewJobs[k].modified_timestamp = HookDoc(call.doctype).modified
                  /\ NewJobs[k].sync_event =
                       (CASE call.event = "after_insert" -> "Insert"
                          [] call.event = "on_trash" -> "Delete"
                          [] OTHER -> "Update")
        ELSE NewJobs = <<>>

\* An enabled type with the self-connection and one other peer enabled:
\* one job, for the other peer.
C12_Witness ==
    /\ pc = "changed" /\ call.doctype = DT /\ call.event = "on_update" /\ PolicyEnables
    /\ connections[1].enabled /\ connections[2].enabled /\ ~connections[3].enabled
    /\ Len(NewJobs) = 1 /\ NewJobs[1].connection_name = "c1"

\* C13: a site that applies an Update received from the peer B, with the
\* policy forwarding updates of DT, enqueues a job that forwards the change
\* to its other peer C.
C13_Forwarding ==
    (/\ Done /\ call.event = "Update" /\ call.origin_site_id = "B"
     /\ result = "ok" /\ LogIs("Success")
     /\ is_sync_enabled_for_doctype(settings, DT, "on_update"))
        => \E k \in (Len(pre.queue) + 1)..Len(queue) : queue[k].connection_name = "c3"

SubmitCall == Done /\ call.event = "Submit" /\ call.doc_data.valid

\* C14: an incoming Submit inserts an absent record and leaves it
\* Submitted; on a Draft record it writes the payload's scalar fields and
\* sets docstatus to Submitted; on a Submitted or Cancelled record it
\* changes nothing; the log ends Success in all four cases.
C14_SubmitMachine ==
    SubmitCall =>
        /\ result = "ok" /\ LogIs("Success")
        /\ IF ~pre.doc.exists THEN doc.exists /\ doc.docstatus = 1
           ELSE IF pre.doc.docstatus = 0
           THEN /\ doc.exists /\ doc.docstatus = 1
                /\ doc.title = call.doc_data.title
                /\ call.doc_data.modified # NoneTs => doc.modified = call.doc_data.modified
           ELSE doc = pre.doc

CancelCall == Done /\ call.event = "Cancel" /\ call.doc_data.valid

\* C15: an incoming Cancel creates no record and is logged Skipped when
\* the record is absent; sets docstatus to Cancelled and nothing else on a
\* Submitted record; leaves a Draft or Cancelled record as it is.
C15_CancelMachine ==
    CancelCall =>
        /\ result = "ok"
        /\ IF ~pre.doc.exists THEN doc = pre.doc /\ LogIs("Skipped")
           ELSE IF pre.doc.docstatus = 1
           THEN doc = [pre.doc EXCEPT !.docstatus = 2] /\ LogIs("Success")
           ELSE doc = pre.doc

\* A Cancel of a Submitted record that has child rows.
C15_Witness ==
    /\ CancelCall /\ pre.doc.exists /\ pre.doc.docstatus = 1 /\ pre.doc.rows # {}
    /\ doc.docstatus = 2 /\ doc.rows = pre.doc.rows /\ doc.title = pre.doc.title
    /\ LogIs("Success")

\* The latest push_to_remote call and the log it inserted.
Pushed == last_push.connection_name # ""

\* No time has passed since that call: a Success log it inserted is
\* younger than any retention period.
JustPushed == Pushed /\ now = last_push.at

PushLog == LogNamed(out_logs, last_push.log)

\* The Sync Connection document the call named, while it exists.
PeerExists == HasConnection(connections, last_push.connection_name)

PushPeer ==
    connections[CHOOSE k \in 1..Len(connections) :
                    connections[k].name = last_push.connection_name]

PushPersisted ==
    /\ HasLog(out_logs, last_push.log)
    /\ PushLog.direction = "Outgoing"
    /\ PushLog.sync_connection = last_push.connection_name
    /\ PushLog.request_payload = last_push.doc_data

PushOutcome ==
    IF last_push.found /\ last_push.up
    THEN /\ PushLog.status = "Success"
         /\ PeerExists => /\ PushPeer.status = "Active"
                          /\ PushPeer.last_sync_at = last_push.at
    ELSE /\ PushLog.status = "Failed"
         /\ PushLog.retry_count = 0
         /\ PushLog.next_retry_at = last_push.at + 60
         /\ PeerExists => PushPeer.status = "Error"

C17_SweepsSafe == \A p \in replays : p.calls <= 1

\* C19: an Outgoing Sync Log is Success only if the peer of its connection
\* has answered a post of the payload.
C19_SuccessMeansDelivered ==
    \A i \in 1..Len(out_logs) :
        out_logs[i].status = "Success" => out_logs[i].sync_connection \in reached

Resolved == resolved # NoResolution

\* C18: for every dependency list, the record being applied and repeated
\* pairs included, _resolve_dependencies runs one iteration per entry,
\* handles no (type, id) pair more than once, and leaves the in-progress
\* set without any pair it added.
C18_CycleSafe ==
    Resolved =>
        /\ resolved.iterations = Len(dependencies)
        /\ \A i, j \in 1..Len(resolved.errors) :
              i # j => resolved.errors[i].key # resolved.errors[j].key
        /\ resolved.resolving = {} /\ resolving_deps = {}

\* A Failed log below the retry ceiling, with the peer back for good.
Recoverable ==
    /\ peer_recovered
    /\ \E i \in 1..Len(out_logs) :
          out_logs[i].status = "Failed" /\ out_logs[i].retry_count < MAX_RETRIES

NoneFailed == \A i \in 1..Len(out_logs) : out_logs[i].status # "Failed"

\* The peer has answered, no log is Failed and no process is inside
\* push_to_remote.
DeliveredAll ==
    /\ "c1" \in reached /\ NoneFailed
    /\ \A w \in Workers : flight[w].stage = "idle"

\* C20: from the time the peer is back for good with a Failed log below
\* the retry ceiling, the payload is eventually delivered and no log is
\* Failed.
C20_EventualDelivery == Recoverable ~> DeliveredAll

\* A replay after the peer came back delivered the payload and left no
\* Failed log.
C20_Witness ==
    /\ peer_recovered /\ DeliveredAll
    /\ last_retry.log # 0 /\ last_retry.delivered
    /\ Len(out_logs) >= 2

\* C21: under Last Write Wins an Insert for an existing record whose
\* modified_timestamp is strictly smaller than the record's modified is
\* Skipped and leaves the record as it was.
C21_InsertAsUpdate ==
    (/\ Done /\ call.event = "Insert" /\ call.doc_data.valid
     /\ pre.doc.exists /\ UsesLastWriteWins
     /\ pre.doc.modified # NoneTs /\ call.modified_timestamp < pre.doc.modified)
        => result = "ok" /\ LogIs("Skipped") /\ doc = pre.doc

\* C22: a Sync Connection that is not enabled has status Disabled, and no
\* push_to_remote call reaches the peer of a connection that was not
\* enabled when the call was made.
C22_DisabledUntouched ==
    /\ \A k \in 1..Len(connections) :
          ~connections[k].enabled => connections[k].status = "Disabled"
    /\ Pushed => last_push.enabled

====
